---- MODULE Spec2Model ----
(***************************************************************************)
(* Model of the Hyper-V enlightenment emulation of the ACRN hypervisor     *)
(* (hypervisor/arch/x86/guest/hyperv.c): the synthetic MSR handlers, the   *)
(* reference-TSC page publish, the hypercall stub page, the reference-time *)
(* arithmetic and the per-VM reset.                                        *)
(*                                                                         *)
(* Number representation.  TLC integers are 32-bit, so a uint64_t is an    *)
(* 8-tuple of bytes, least significant byte first, and a uint32_t a        *)
(* 4-tuple of bytes; all arithmetic on them is done limb by limb at full   *)
(* width.  A guest page is the tuple of its first PageHead bytes (the part *)
(* struct HV_REFERENCE_TSC_PAGE and the stubs overlay) plus one flag that  *)
(* tells whether any of the remaining bytes is nonzero.                    *)
(***************************************************************************)
EXTENDS Integers, Sequences, FiniteSets, TLC

(***************************************************************************)
(* Bounds of the model.                                                    *)
(***************************************************************************)
\* number of vCPUs of the VM that run MSR handlers concurrently
NumVcpus == 2
\* total number of handler calls (wrmsr, rdmsr, reset, guest reads) started
MaxCalls == 3
\* number of handler calls started in the sequential model
MaxSeqCalls == 4
\* number of TimeRefCount reads started in the time model
MaxTimeCalls == 2
\* number of environment steps (virtual TSC changes) in the time model
MaxTicks == 2
\* number of GuestOsId writes started in the CPUID model
MaxCpuidCalls == 1
\* number of ReferenceTsc writes and guest reads started in the publish model
MaxTscCalls == 4

(***************************************************************************)
(* Fixed-width unsigned integers as little-endian byte tuples.             *)
(***************************************************************************)
U64Zero == <<0, 0, 0, 0, 0, 0, 0, 0>>

U32Zero == <<0, 0, 0, 0>>

\* the uint64_t whose value is the natural number n (n below 2^31)
ToU64(n) ==
    <<n % 256, (n \div 256) % 256, (n \div 65536) % 256, n \div 16777216,
      0, 0, 0, 0>>

\* unsigned comparison a < b of two byte tuples of equal width:
\* the most significant differing byte decides
Less(a, b) ==
    \E k \in DOMAIN a :
        /\ a[k] < b[k]
        /\ \A j \in DOMAIN a : j > k => a[j] = b[j]

Leq(a, b) == a = b \/ Less(a, b)

\* borrow into byte k of a - b
RECURSIVE Borrow(_, _, _)
Borrow(a, b, k) ==
    IF k = 1 THEN 0
    ELSE IF a[k - 1] - b[k - 1] - Borrow(a, b, k - 1) < 0 THEN 1 ELSE 0

\* (a - b) mod 2^64, the uint64_t subtraction of C
Sub64(a, b) ==
    [k \in 1..8 |-> (a[k] - b[k] - Borrow(a, b, k) + 256) % 256]

\* carry into byte k of a + 1
RECURSIVE Carry1(_, _)
Carry1(a, k) ==
    IF k = 1 THEN 1
    ELSE IF a[k - 1] + Carry1(a, k - 1) > 255 THEN 1 ELSE 0

\* (a + 1) mod 2^32, the uint32_t addition of C
Inc32(a) == [k \in 1..4 |-> (a[k] + Carry1(a, k)) % 256]

(***************************************************************************)
(* Fixed-Point TSC Math.                                                   *)
(***************************************************************************)
\* sum of the byte products a[i] * b[j] of weight 256^k (i + j = k, from 0)
ColSum(a, b, k) ==
    LET T(i) == IF k - i >= 0 /\ k - i <= 7 THEN a[i + 1] * b[k - i + 1] ELSE 0
    IN  T(0) + T(1) + T(2) + T(3) + T(4) + T(5) + T(6) + T(7)

\* the 16 bytes of the 128-bit product a * b: each column sum plus the carry
\* of the column below it
MulDigits(a, b) ==
    LET s0 == ColSum(a, b, 0)
        s1 == ColSum(a, b, 1) + s0 \div 256
        s2 == ColSum(a, b, 2) + s1 \div 256
        s3 == ColSum(a, b, 3) + s2 \div 256
        s4 == ColSum(a, b, 4) + s3 \div 256
        s5 == ColSum(a, b, 5) + s4 \div 256
        s6 == ColSum(a, b, 6) + s5 \div 256
        s7 == ColSum(a, b, 7) + s6 \div 256
        s8 == ColSum(a, b, 8) + s7 \div 256
        s9 == ColSum(a, b, 9) + s8 \div 256
        s10 == ColSum(a, b, 10) + s9 \div 256
        s11 == ColSum(a, b, 11) + s10 \div 256
        s12 == ColSum(a, b, 12) + s11 \div 256
        s13 == ColSum(a, b, 13) + s12 \div 256
        s14 == ColSum(a, b, 14) + s13 \div 256
        s15 == s14 \div 256
    IN  <<s0 % 256, s1 % 256, s2 % 256, s3 % 256, s4 % 256, s5 % 256,
          s6 % 256, s7 % 256, s8 % 256, s9 % 256, s10 % 256, s11 % 256,
          s12 % 256, s13 % 256, s14 % 256, s15>>

\* u64_mul_u64_shr64 that returns RAX, the low 64 bits
u64_mul_u64_shr64_Rax(a, b) == SubSeq(MulDigits(a, b), 1, 8)

\* mulq: RDX:RAX = a * b, the function returns RDX (the high 64 bits)
u64_mul_u64_shr64(a, b) == SubSeq(MulDigits(a, b), 9, 16)

\* the low 64 bits of a * b: the uint64_t multiplication of C
Mul64(a, b) == SubSeq(MulDigits(a, b), 1, 8)

\* n steps of binary long division of r * 2^n by d (r < d): <<quotient, rest>>
RECURSIVE DivStep(_, _, _, _)
DivStep(r, d, n, acc) ==
    IF n = 0 THEN <<acc, r>>
    ELSE IF 2 * r >= d THEN DivStep(2 * r - d, d, n - 1, 2 * acc + 1)
         ELSE DivStep(2 * r, d, n - 1, 2 * acc)

\* the k low bytes of floor(r * 2^(8k) / d), least significant byte first
RECURSIVE DivBytes(_, _, _)
DivBytes(r, d, k) ==
    IF k = 0 THEN <<>>
    ELSE LET s == DivStep(r, d, 8, 0)
         IN  DivBytes(s[2], d, k - 1) \o <<s[1]>>

\* divq: the 128-bit dividend is RDX:RAX = a:0.  The instruction raises the
\* divide error #DE when the divisor is 0 or the quotient does not fit 64
\* bits, which is when the high dividend word a is not below the divisor.
\* a and divisor are natural numbers here (get_tsc_khz() is a uint32_t).
u64_shl64_div_u64(a, divisor) ==
    IF divisor = 0 \/ a >= divisor
    THEN [de |-> TRUE, ret |-> U64Zero]
    ELSE [de |-> FALSE, ret |-> DivBytes(a, divisor, 8)]

(***************************************************************************)
(* Guest memory.                                                           *)
(***************************************************************************)
\* bytes of a page kept one by one: offsets 0..23 hold tsc_sequence,
\* reserved1, tsc_scale and tsc_offset of struct HV_REFERENCE_TSC_PAGE
PageHead == 24

\* memset(page_hva, 0U, PAGE_SIZE)
ZeroPage == [b |-> [k \in 1..PageHead |-> 0], rest |-> 0]

\* memcpy of the bytes src to the byte offset off (from 0) of the page pg
WriteBytes(pg, off, src) ==
    [pg EXCEPT !.b = [k \in 1..PageHead |->
        IF k > off /\ k <= off + Len(src) THEN src[k - off] ELSE @[k]]]

\* the fields of struct HV_REFERENCE_TSC_PAGE overlaid on a page
PageSeq(pg) == SubSeq(pg.b, 1, 4)

PageScale(pg) == SubSeq(pg.b, 9, 16)

PageOffset(pg) == SubSeq(pg.b, 17, 24)

\* a page image with the given sequence number, scale and offset
TscPageImage(seq, scale, offset, rest) ==
    [b |-> seq \o U32Zero \o scale \o offset, rest |-> rest]

\* the two sentinel values of tsc_sequence
SeqMax == <<255, 255, 255, 255>>

IsSentinel(seq) == seq = U32Zero \/ seq = SeqMax

\* the hypercall stubs
inst32 == <<184, 2, 0, 0, 0, 186, 0, 0, 0, 0, 195>>

inst64 == <<72, 199, 192, 2, 0, 0, 0, 195>>

\* guest physical addresses of the pages of the model: Gpa1 and Gpa2 are
\* backed by guest memory, every other address fails to translate
Gpa1 == <<0, 16, 0, 0, 0, 0, 0, 0>>

Gpa2 == <<0, 32, 0, 0, 0, 0, 0, 0>>

MappedGpas == {Gpa1, Gpa2}

NULL == <<>>

\* gpa2hva(): the host address of a guest page (named here by its guest
\* address), NULL when the guest address is not backed
gpa2hva(gpa) == IF gpa \in MappedGpas THEN gpa ELSE NULL

\* contents guest memory may hold before the hypervisor writes it: stale
\* reference-TSC data of an earlier run, data next to the wrap of the
\* sequence number, arbitrary data
OldScale == <<1, 2, 3, 4, 5, 6, 7, 8>>

OldOffset == <<9, 9, 9, 9, 0, 0, 0, 0>>

StalePage == TscPageImage(<<255, 0, 0, 0>>, OldScale, OldOffset, 1)

InitPages ==
    { ZeroPage,
      StalePage,
      TscPageImage(<<254, 255, 255, 255>>, OldScale, OldOffset, 0),
      TscPageImage(SeqMax, OldOffset, OldScale, 1) }

(***************************************************************************)
(* MSR values.                                                             *)
(***************************************************************************)
HV_X64_MSR_GUEST_OS_ID == "HV_X64_MSR_GUEST_OS_ID"

HV_X64_MSR_HYPERCALL == "HV_X64_MSR_HYPERCALL"

HV_X64_MSR_VP_INDEX == "HV_X64_MSR_VP_INDEX"

HV_X64_MSR_TIME_REF_COUNT == "HV_X64_MSR_TIME_REF_COUNT"

HV_X64_MSR_REFERENCE_TSC == "HV_X64_MSR_REFERENCE_TSC"

HV_X64_MSR_TSC_FREQUENCY == "HV_X64_MSR_TSC_FREQUENCY"

HV_X64_MSR_APIC_FREQUENCY == "HV_X64_MSR_APIC_FREQUENCY"

\* an MSR address that is none of the synthetic MSRs
MSR_OTHER == "MSR_OTHER"

Msrs ==
    { HV_X64_MSR_GUEST_OS_ID, HV_X64_MSR_HYPERCALL, HV_X64_MSR_VP_INDEX,
      HV_X64_MSR_TIME_REF_COUNT, HV_X64_MSR_REFERENCE_TSC,
      HV_X64_MSR_TSC_FREQUENCY, HV_X64_MSR_APIC_FREQUENCY, MSR_OTHER }

\* the enabled bit field (bit 0) of union hyperv_hypercall_msr and of union
\* hyperv_ref_tsc_page_msr
Enabled(v) == v[1] % 2

\* the value v after the assignment "enabled = 0" to its bit field
ClearEnabled(v) == [v EXCEPT ![1] = @ - (@ % 2)]

\* gpfn << PAGE_SHIFT: gpfn is the bit field of bits 12..63
Gpa(v) == [v EXCEPT ![1] = 0, ![2] = @ - (@ % 16)]

\* values the guest writes: 0; page 1 enabled, with a reserved bit set;
\* page 1 disabled, with reserved bits set; page 2 enabled; all ones
\* (enabled, an address that does not translate)
ValEn1 == <<3, 16, 0, 0, 0, 0, 0, 0>>

ValDis1 == <<254, 31, 0, 0, 0, 0, 0, 0>>

ValEn2 == <<1, 32, 0, 0, 0, 0, 0, 0>>

ValOnes == <<255, 255, 255, 255, 255, 255, 255, 255>>

WVals == {U64Zero, ValEn1, ValDis1, ValEn2, ValOnes}

\* what the caller of hyperv_rdmsr holds in *rval before the call
RvalPoison == <<204, 204, 204, 204, 204, 204, 204, 204>>

(***************************************************************************)
(* State.                                                                  *)
(***************************************************************************)
Vcpus == 0..(NumVcpus - 1)

VARIABLES
    \* struct acrn_hyperv of the VM (vm->arch_vm.hyperv)
    guest_os_id, hypercall_page, ref_tsc_page, tsc_scale, tsc_offset,
    \* guest memory: the contents of each backed page
    mem,
    \* the platform: calibrated TSC frequency (get_tsc_khz()) and the
    \* virtual TSC now (rdtsc() + VMX_TSC_OFFSET_FULL)
    tsc_khz, vtsc,
    \* "created" before hyperv_init_time, "running" after it, "fault" when
    \* it raised a divide error
    vm_state,
    \* per vCPU: the position in its handler, the call it executes
    \* ([kind, msr, wval]), the handler's ret and *rval, its locals p,
    \* tsc_seq and the value loaded for a bit-field update, and the AC flag
    \* of its CPU (stac/clac)
    pc, op, ret, rval, p, tsc_seq, tmp, ac,
    \* the CPU that runs hyperv_page_destory: position and loaded value
    dpc, dtmp,
    \* the guest reader of the reference-TSC page: position, page, and the
    \* values read (sequence, scale, offset, sequence again)
    rpc, rpage, r_seq1, r_scale, r_offset, r_seq2,
    \* history: the state when the latest call started, the value of the
    \* latest completed write when that was a write of ReferenceTsc, the
    \* number of calls started and of environment steps taken
    pre, ref_written, ncalls, nticks,
    \* the struct vcpuid_entry the caller of hyperv_init_vcpuid_entry passes,
    \* and the latest call: its arguments and the entry before it
    entry, cpuid_call,
    \* what the handlers observed: per vCPU the mode get_vcpu_mode returned
    \* and the tsc_sequence of the page when its publish opened the page;
    \* per page whether a publish to it has completed and whether a stub was
    \* written to it since; the virtual TSC value hyperv_init_time sampled
    cpu_mode, seq_start, page_use, init_vtsc

hv_vars == <<guest_os_id, hypercall_page, ref_tsc_page, tsc_scale, tsc_offset>>

env_vars == <<tsc_khz, vtsc>>

vcpu_vars == <<pc, op, ret, rval, p, tsc_seq, tmp, ac>>

destroy_vars == <<dpc, dtmp>>

reader_vars == <<rpc, rpage, r_seq1, r_scale, r_offset, r_seq2>>

hist_vars == <<pre, ref_written, ncalls, nticks>>

cpuid_vars == <<entry, cpuid_call>>

aux_vars == <<cpu_mode, seq_start, page_use, init_vtsc>>

vars == <<hv_vars, mem, env_vars, vm_state, vcpu_vars, destroy_vars,
          reader_vars, hist_vars, cpuid_vars, aux_vars>>

\* the state a call can change, recorded when the call starts
Snapshot ==
    [guest_os_id |-> guest_os_id, hypercall_page |-> hypercall_page,
     ref_tsc_page |-> ref_tsc_page, tsc_scale |-> tsc_scale,
     tsc_offset |-> tsc_offset, mem |-> mem]

NoRefWrite == [valid |-> FALSE, val |-> U64Zero]

NoOp == [kind |-> "none", msr |-> MSR_OTHER, wval |-> U64Zero]

\* no handler is executing
Quiet == (\A i \in Vcpus : pc[i] = "idle") /\ dpc = "idle" /\ rpc = "idle"

(***************************************************************************)
(* hyperv_init_vcpuid_entry.  The fields of struct vcpuid_entry are         *)
(* uint32_t, 4-tuples of bytes.                                            *)
(***************************************************************************)
\* the leaf 0x40000000 + n
Leaf(n) == <<n, 0, 0, 64>>

\* the features of leaf 0x40000003
CPUID3A_TIME_REF_COUNT_MSR == <<2, 0, 0, 0>>

CPUID3A_HYPERCALL_MSR == <<32, 0, 0, 0>>

CPUID3A_VP_INDEX_MSR == <<64, 0, 0, 0>>

CPUID3A_REFERENCE_TSC_MSR == <<0, 2, 0, 0>>

CPUID3A_ACCESS_FREQUENCY_MSRS == <<0, 8, 0, 0>>

CPUID3D_FREQ_MSRS_AVAILABLE == <<0, 1, 0, 0>>

\* a | b of two words that have no bit in common
Or32(a, b) == [k \in 1..4 |-> a[k] + b[k]]

\* the number of vCPUs the build allows per VM (a configuration value)
MAX_VCPUS_PER_VM == <<8, 0, 0, 0>>

Regs(a, b, c, d) == [eax |-> a, ebx |-> b, ecx |-> c, edx |-> d]

\* LeafRegs without the interface signature of leaf 0x40000001
LeafRegs_NoSignature(leaf) ==
    CASE leaf = Leaf(1) -> Regs(U32Zero, U32Zero, U32Zero, U32Zero)
      [] leaf = Leaf(2) -> Regs(U32Zero, U32Zero, U32Zero, U32Zero)
      [] leaf = Leaf(3) ->
            Regs(Or32(Or32(Or32(Or32(CPUID3A_HYPERCALL_MSR,
                                     CPUID3A_VP_INDEX_MSR),
                                CPUID3A_TIME_REF_COUNT_MSR),
                           CPUID3A_REFERENCE_TSC_MSR),
                      CPUID3A_ACCESS_FREQUENCY_MSRS),
                 U32Zero, U32Zero, CPUID3D_FREQ_MSRS_AVAILABLE)
      [] leaf = Leaf(4) -> Regs(U32Zero, U32Zero, U32Zero, U32Zero)
      [] leaf = Leaf(5) -> Regs(MAX_VCPUS_PER_VM, U32Zero, U32Zero, U32Zero)
      [] leaf = Leaf(6) -> Regs(U32Zero, U32Zero, U32Zero, U32Zero)

\* the registers the cases 0x40000001..0x40000006 of the switch assign
LeafRegs(leaf) ==
    CASE leaf = Leaf(1) -> Regs(<<72, 118, 35, 49>>, U32Zero, U32Zero, U32Zero)
      [] leaf = Leaf(2) -> Regs(U32Zero, U32Zero, U32Zero, U32Zero)
      [] leaf = Leaf(3) ->
            Regs(Or32(Or32(Or32(Or32(CPUID3A_HYPERCALL_MSR,
                                     CPUID3A_VP_INDEX_MSR),
                                CPUID3A_TIME_REF_COUNT_MSR),
                           CPUID3A_REFERENCE_TSC_MSR),
                      CPUID3A_ACCESS_FREQUENCY_MSRS),
                 U32Zero, U32Zero, CPUID3D_FREQ_MSRS_AVAILABLE)
      [] leaf = Leaf(4) -> Regs(U32Zero, U32Zero, U32Zero, U32Zero)
      [] leaf = Leaf(5) -> Regs(MAX_VCPUS_PER_VM, U32Zero, U32Zero, U32Zero)
      [] leaf = Leaf(6) -> Regs(U32Zero, U32Zero, U32Zero, U32Zero)

\* the leaves the switch has a case for
HypervLeaves == {Leaf(n) : n \in 1..6}

\* SwitchLeaf whose default case clears the registers
SwitchLeaf_DefaultZero(leaf, e) ==
    IF leaf \in HypervLeaves
    THEN LET r == LeafRegs(leaf)
         IN  [e EXCEPT !.eax = r.eax, !.ebx = r.ebx, !.ecx = r.ecx,
                       !.edx = r.edx]
    ELSE [e EXCEPT !.eax = U32Zero, !.ebx = U32Zero, !.ecx = U32Zero,
                   !.edx = U32Zero]

\* switch (leaf): the entry e after it; the default case does nothing
SwitchLeaf(leaf, e) ==
    IF leaf \in HypervLeaves
    THEN LET r == LeafRegs(leaf)
         IN  [e EXCEPT !.eax = r.eax, !.ebx = r.ebx, !.ecx = r.ecx,
                       !.edx = r.edx]
    ELSE e

\* the entry before any call: the caller's struct holds what its memory held
Entry(leaf, subleaf, flags, r) ==
    [leaf |-> leaf, subleaf |-> subleaf, flags |-> flags, eax |-> r.eax,
     ebx |-> r.ebx, ecx |-> r.ecx, edx |-> r.edx]

ZeroEntry ==
    Entry(U32Zero, U32Zero, U32Zero, Regs(U32Zero, U32Zero, U32Zero, U32Zero))

InitEntries ==
    { ZeroEntry,
      Entry(<<13, 0, 0, 0>>, <<1, 0, 0, 0>>, <<1, 0, 0, 0>>,
            Regs(<<17, 17, 17, 17>>, <<34, 34, 34, 34>>, <<51, 51, 51, 51>>,
                 <<68, 68, 68, 68>>)) }

NoCpuidCall ==
    [valid |-> FALSE, leaf |-> U32Zero, subleaf |-> U32Zero,
     flags |-> U32Zero, old |-> ZeroEntry]

\* the arguments of the model: the six leaves, the leaves next to the range
\* (0x40000000, 0x40000007), and leaves that differ from 0x40000001 in the
\* high byte only (0x00000001, 0x80000001)
CpuidLeaves ==
    HypervLeaves \cup {Leaf(0), Leaf(7), <<1, 0, 0, 0>>, <<1, 0, 0, 128>>}

CpuidSubleaves == {U32Zero, <<2, 0, 0, 0>>}

\* flags: 0 and CPUID_CHECK_SUBLEAF
CpuidFlags == {U32Zero, <<1, 0, 0, 0>>}

\* hyperv_init_vcpuid_entry(leaf, subleaf, flags, entry): the three stores
\* of lines 261..263, then the switch
hyperv_init_vcpuid_entry(leaf, subleaf, flags) ==
    /\ entry' = SwitchLeaf(leaf, [entry EXCEPT !.leaf = leaf,
                                               !.subleaf = subleaf,
                                               !.flags = flags])
    /\ cpuid_call' = [valid |-> TRUE, leaf |-> leaf, subleaf |-> subleaf,
                      flags |-> flags, old |-> entry]
    /\ UNCHANGED <<hv_vars, mem, env_vars, vm_state, vcpu_vars, destroy_vars,
                   reader_vars, hist_vars, aux_vars>>

(***************************************************************************)
(* Initial state: the VM is created, its Hyper-V state block is zeroed,    *)
(* hyperv_init_time has not run yet, no vCPU is in a handler.              *)
(***************************************************************************)
\* the TSC frequency and the virtual TSC of the MSR model
DefaultTscKhz == {2000000}

DefaultVtsc == <<0, 0, 0, 128, 7, 0, 0, 0>>

InitCommon ==
    /\ guest_os_id = U64Zero
    /\ hypercall_page = U64Zero
    /\ ref_tsc_page = U64Zero
    /\ tsc_scale = U64Zero
    /\ tsc_offset = U64Zero
    /\ vm_state = "created"
    /\ pc = [i \in Vcpus |-> "idle"]
    /\ op = [i \in Vcpus |-> NoOp]
    /\ ret = [i \in Vcpus |-> 0]
    /\ rval = [i \in Vcpus |-> RvalPoison]
    /\ p = [i \in Vcpus |-> NULL]
    /\ tsc_seq = [i \in Vcpus |-> U32Zero]
    /\ tmp = [i \in Vcpus |-> U64Zero]
    /\ ac = [i \in Vcpus |-> FALSE]
    /\ dpc = "idle"
    /\ dtmp = U64Zero
    /\ rpc = "idle"
    /\ rpage = Gpa1
    /\ r_seq1 = U32Zero
    /\ r_scale = U64Zero
    /\ r_offset = U64Zero
    /\ r_seq2 = U32Zero
    /\ ref_written = NoRefWrite
    /\ ncalls = 0
    /\ nticks = 0
    /\ cpuid_call = NoCpuidCall
    /\ cpu_mode = [i \in Vcpus |-> "none"]
    /\ seq_start = [i \in Vcpus |-> U32Zero]
    /\ page_use = [g \in MappedGpas |-> [tsc |-> FALSE, stub |-> FALSE]]
    /\ init_vtsc = U64Zero

Init ==
    /\ InitCommon
    /\ mem \in {m \in [MappedGpas -> InitPages] : m[Gpa2] = StalePage}
    /\ tsc_khz \in DefaultTscKhz
    /\ vtsc = DefaultVtsc
    /\ entry = ZeroEntry
    /\ pre = Snapshot

(***************************************************************************)
(* Reference-Time Engine.                                                  *)
(***************************************************************************)
\* hyperv_scale_tsc: rdtsc() + exec_vmread64(VMX_TSC_OFFSET_FULL) is vtsc
hyperv_scale_tsc(scale) == u64_mul_u64_shr64(vtsc, scale)

\* hyperv_get_ReferenceTime with the operands of the subtraction swapped
hyperv_get_ReferenceTime_Swapped ==
    Sub64(tsc_offset, hyperv_scale_tsc(tsc_scale))

hyperv_get_ReferenceTime == Sub64(hyperv_scale_tsc(tsc_scale), tsc_offset)

\* InitTimeDiv with the operands of the division swapped
InitTimeDiv_Swapped(khz) == u64_shl64_div_u64(khz, 10000)

\* the division of hyperv_init_time
InitTimeDiv(khz) == u64_shl64_div_u64(10000, khz)

\* hyperv_init_time that leaves the origin of the reference time at TSC 0
hyperv_init_time_ZeroOffset ==
    /\ vm_state = "created"
    /\ LET d == InitTimeDiv(tsc_khz)
       IN  IF d.de
           THEN /\ vm_state' = "fault"
                /\ UNCHANGED <<tsc_scale, tsc_offset, init_vtsc>>
           ELSE /\ vm_state' = "running"
                /\ tsc_scale' = d.ret
                /\ tsc_offset' = U64Zero
                /\ init_vtsc' = vtsc
    /\ UNCHANGED <<guest_os_id, hypercall_page, ref_tsc_page, mem, env_vars,
                   vcpu_vars, destroy_vars, reader_vars, hist_vars,
                   cpuid_vars, cpu_mode, seq_start, page_use>>

\* hyperv_init_time: a divide error of the division ends the hypervisor; the
\* virtual TSC it samples is kept in init_vtsc
hyperv_init_time ==
    /\ vm_state = "created"
    /\ LET d == InitTimeDiv(tsc_khz)
       IN  IF d.de
           THEN /\ vm_state' = "fault"
                /\ UNCHANGED <<tsc_scale, tsc_offset, init_vtsc>>
           ELSE /\ vm_state' = "running"
                /\ tsc_scale' = d.ret
                /\ tsc_offset' = hyperv_scale_tsc(d.ret)
                /\ init_vtsc' = vtsc
    /\ UNCHANGED <<guest_os_id, hypercall_page, ref_tsc_page, mem, env_vars,
                   vcpu_vars, destroy_vars, reader_vars, hist_vars,
                   cpuid_vars, cpu_mode, seq_start, page_use>>

(***************************************************************************)
(* hyperv_wrmsr.                                                           *)
(***************************************************************************)
\* WrmsrEntry with TimeRefCount handled like GuestOsId
WrmsrEntry_TimeRefCount(msr) ==
    CASE msr = HV_X64_MSR_GUEST_OS_ID -> "wr_os_id"
      [] msr = HV_X64_MSR_TIME_REF_COUNT -> "wr_os_id"
      [] msr = HV_X64_MSR_HYPERCALL -> "wr_hc_gate"
      [] msr = HV_X64_MSR_REFERENCE_TSC -> "tsc_store"
      [] OTHER -> "wr_reject"

\* the case of the switch of hyperv_wrmsr that handles msr
WrmsrEntry(msr) ==
    CASE msr = HV_X64_MSR_GUEST_OS_ID -> "wr_os_id"
      [] msr = HV_X64_MSR_HYPERCALL -> "wr_hc_gate"
      [] msr = HV_X64_MSR_REFERENCE_TSC -> "tsc_store"
      [] OTHER -> "wr_reject"

\* a vCPU enters hyperv_wrmsr(vcpu, msr, wval)
CallWrmsr(i, msr, wval) ==
    /\ vm_state = "running"
    /\ pc[i] = "idle"
    /\ pc' = [pc EXCEPT ![i] = WrmsrEntry(msr)]
    /\ op' = [op EXCEPT ![i] = [kind |-> "wrmsr", msr |-> msr, wval |-> wval]]
    /\ ret' = [ret EXCEPT ![i] = 0]
    /\ pre' = Snapshot
    /\ ncalls' = ncalls + 1
    /\ UNCHANGED <<hv_vars, mem, env_vars, vm_state, rval, p, tsc_seq, tmp,
                   ac, destroy_vars, reader_vars, ref_written, nticks,
                   cpuid_vars, aux_vars>>

\* case HV_X64_MSR_GUEST_OS_ID: the store of guest_os_id.val64
WrOsId(i) ==
    /\ pc[i] = "wr_os_id"
    /\ guest_os_id' = op[i].wval
    /\ pc' = [pc EXCEPT ![i] =
                IF op[i].wval = U64Zero THEN "wr_os_clr_rd" ELSE "done"]
    /\ UNCHANGED <<hypercall_page, ref_tsc_page, tsc_scale, tsc_offset, mem,
                   env_vars, vm_state, op, ret, rval, p, tsc_seq, tmp, ac,
                   destroy_vars, reader_vars, hist_vars, cpuid_vars, aux_vars>>

\* hypercall_page.enabled = 0UL: the load of the word that holds the field
WrOsClrRd(i) ==
    /\ pc[i] = "wr_os_clr_rd"
    /\ tmp' = [tmp EXCEPT ![i] = hypercall_page]
    /\ pc' = [pc EXCEPT ![i] = "wr_os_clr_wr"]
    /\ UNCHANGED <<hv_vars, mem, env_vars, vm_state, op, ret, rval, p,
                   tsc_seq, ac, destroy_vars, reader_vars, hist_vars,
                   cpuid_vars, aux_vars>>

\* hypercall_page.enabled = 0UL: the store of the word with the bit cleared
WrOsClrWr(i) ==
    /\ pc[i] = "wr_os_clr_wr"
    /\ hypercall_page' = ClearEnabled(tmp[i])
    /\ pc' = [pc EXCEPT ![i] = "done"]
    /\ UNCHANGED <<guest_os_id, ref_tsc_page, tsc_scale, tsc_offset, mem,
                   env_vars, vm_state, op, ret, rval, p, tsc_seq, tmp, ac,
                   destroy_vars, reader_vars, hist_vars, cpuid_vars, aux_vars>>

\* WrHcGate without the test of guest_os_id
WrHcGate_NoGate(i) ==
    /\ pc[i] = "wr_hc_gate"
    /\ pc' = [pc EXCEPT ![i] = "wr_hc_store"]
    /\ UNCHANGED <<hv_vars, mem, env_vars, vm_state, op, ret, rval, p,
                   tsc_seq, tmp, ac, destroy_vars, reader_vars, hist_vars,
                   cpuid_vars, aux_vars>>

\* case HV_X64_MSR_HYPERCALL: the test of guest_os_id
WrHcGate(i) ==
    /\ pc[i] = "wr_hc_gate"
    /\ pc' = [pc EXCEPT ![i] =
                IF guest_os_id = U64Zero THEN "done" ELSE "wr_hc_store"]
    /\ UNCHANGED <<hv_vars, mem, env_vars, vm_state, op, ret, rval, p,
                   tsc_seq, tmp, ac, destroy_vars, reader_vars, hist_vars,
                   cpuid_vars, aux_vars>>

\* WrHcStore that stores the value only when the page translates
WrHcStore_StoreOnSuccess(i) ==
    /\ pc[i] = "wr_hc_store"
    /\ LET page_hva == gpa2hva(Gpa(op[i].wval))
       IN  IF Enabled(op[i].wval) # 0 /\ page_hva # NULL
           THEN /\ hypercall_page' = op[i].wval
                /\ p' = [p EXCEPT ![i] = page_hva]
                /\ ac' = [ac EXCEPT ![i] = TRUE]
                /\ pc' = [pc EXCEPT ![i] = "hc_memset"]
           ELSE /\ pc' = [pc EXCEPT ![i] = "done"]
                /\ UNCHANGED <<hypercall_page, p, ac>>
    /\ UNCHANGED <<guest_os_id, ref_tsc_page, tsc_scale, tsc_offset, mem,
                   env_vars, vm_state, op, ret, rval, tsc_seq, tmp,
                   destroy_vars, reader_vars, hist_vars, cpuid_vars, aux_vars>>

\* the store of hypercall_page.val64, then hyperv_setup_hypercall_page up to
\* stac(): the decoding of val and the translation touch no shared state
WrHcStore(i) ==
    /\ pc[i] = "wr_hc_store"
    /\ hypercall_page' = op[i].wval
    /\ LET page_hva == gpa2hva(Gpa(op[i].wval))
       IN  IF Enabled(op[i].wval) # 0 /\ page_hva # NULL
           THEN /\ p' = [p EXCEPT ![i] = page_hva]
                /\ ac' = [ac EXCEPT ![i] = TRUE]
                /\ pc' = [pc EXCEPT ![i] = "hc_memset"]
           ELSE /\ pc' = [pc EXCEPT ![i] = "done"]
                /\ UNCHANGED <<p, ac>>
    /\ UNCHANGED <<guest_os_id, ref_tsc_page, tsc_scale, tsc_offset, mem,
                   env_vars, vm_state, op, ret, rval, tsc_seq, tmp,
                   destroy_vars, reader_vars, hist_vars, cpuid_vars, aux_vars>>

\* HcMemset that leaves the page as it is
HcMemset_Skip(i) ==
    /\ pc[i] = "hc_memset"
    /\ pc' = [pc EXCEPT ![i] = "hc_memcpy"]
    /\ page_use' = [page_use EXCEPT ![p[i]].stub = TRUE]
    /\ UNCHANGED <<hv_vars, mem, env_vars, vm_state, op, ret, rval, p,
                   tsc_seq, tmp, ac, destroy_vars, reader_vars, hist_vars,
                   cpuid_vars, cpu_mode, seq_start, init_vtsc>>

\* memset(page_hva, 0U, PAGE_SIZE)
HcMemset(i) ==
    /\ pc[i] = "hc_memset"
    /\ mem' = [mem EXCEPT ![p[i]] = ZeroPage]
    /\ pc' = [pc EXCEPT ![i] = "hc_memcpy"]
    /\ page_use' = [page_use EXCEPT ![p[i]].stub = TRUE]
    /\ UNCHANGED <<hv_vars, env_vars, vm_state, op, ret, rval, p, tsc_seq,
                   tmp, ac, destroy_vars, reader_vars, hist_vars,
                   cpuid_vars, cpu_mode, seq_start, init_vtsc>>

\* memcpy_s of the stub of the vCPU's mode (get_vcpu_mode), then clac()
HcMemcpy(i, mode64) ==
    /\ pc[i] = "hc_memcpy"
    /\ mem' = [mem EXCEPT ![p[i]] =
                 WriteBytes(@, 0, IF mode64 THEN inst64 ELSE inst32)]
    /\ cpu_mode' = [cpu_mode EXCEPT ![i] =
                      IF mode64 THEN "CPU_MODE_64BIT" ELSE "other"]
    /\ ac' = [ac EXCEPT ![i] = FALSE]
    /\ pc' = [pc EXCEPT ![i] = "done"]
    /\ UNCHANGED <<hv_vars, env_vars, vm_state, op, ret, rval, p, tsc_seq,
                   tmp, destroy_vars, reader_vars, hist_vars,
                   cpuid_vars, seq_start, page_use, init_vtsc>>

\* the read-only and the unknown MSRs: ret = -1
WrReject(i) ==
    /\ pc[i] = "wr_reject"
    /\ ret' = [ret EXCEPT ![i] = -1]
    /\ pc' = [pc EXCEPT ![i] = "done"]
    /\ UNCHANGED <<hv_vars, mem, env_vars, vm_state, op, rval, p, tsc_seq,
                   tmp, ac, destroy_vars, reader_vars, hist_vars,
                   cpuid_vars, aux_vars>>

(***************************************************************************)
(* hyperv_setup_tsc_page.                                                  *)
(***************************************************************************)
\* TscStore that stores the decoded fields only (enabled and gpfn)
TscStore_Decoded(i) ==
    /\ pc[i] = "tsc_store"
    /\ ref_tsc_page' = [Gpa(op[i].wval) EXCEPT ![1] = Enabled(op[i].wval)]
    /\ pc' = [pc EXCEPT ![i] = "tsc_enabled"]
    /\ UNCHANGED <<guest_os_id, hypercall_page, tsc_scale, tsc_offset, mem,
                   env_vars, vm_state, op, ret, rval, p, tsc_seq, tmp, ac,
                   destroy_vars, reader_vars, hist_vars, cpuid_vars, aux_vars>>

\* ref_tsc_page->val64 = val
TscStore(i) ==
    /\ pc[i] = "tsc_store"
    /\ ref_tsc_page' = op[i].wval
    /\ pc' = [pc EXCEPT ![i] = "tsc_enabled"]
    /\ UNCHANGED <<guest_os_id, hypercall_page, tsc_scale, tsc_offset, mem,
                   env_vars, vm_state, op, ret, rval, p, tsc_seq, tmp, ac,
                   destroy_vars, reader_vars, hist_vars, cpuid_vars, aux_vars>>

\* TscEnabled without the test of the enabled field
TscEnabled_Always(i) ==
    /\ pc[i] = "tsc_enabled"
    /\ pc' = [pc EXCEPT ![i] = "tsc_xlate"]
    /\ UNCHANGED <<hv_vars, mem, env_vars, vm_state, op, ret, rval, p,
                   tsc_seq, tmp, ac, destroy_vars, reader_vars, hist_vars,
                   cpuid_vars, aux_vars>>

\* if (ref_tsc_page->enabled == 1U): the field is read from the VM's state
TscEnabled(i) ==
    /\ pc[i] = "tsc_enabled"
    /\ pc' = [pc EXCEPT ![i] =
                IF Enabled(ref_tsc_page) = 1 THEN "tsc_xlate" ELSE "done"]
    /\ UNCHANGED <<hv_vars, mem, env_vars, vm_state, op, ret, rval, p,
                   tsc_seq, tmp, ac, destroy_vars, reader_vars, hist_vars,
                   cpuid_vars, aux_vars>>

\* TscXlate with stac() ahead of the test of p
TscXlate_StacFirst(i) ==
    /\ pc[i] = "tsc_xlate"
    /\ ac' = [ac EXCEPT ![i] = TRUE]
    /\ LET hva == gpa2hva(Gpa(ref_tsc_page))
       IN  IF hva # NULL
           THEN /\ p' = [p EXCEPT ![i] = hva]
                /\ seq_start' = [seq_start EXCEPT ![i] = PageSeq(mem[hva])]
                /\ pc' = [pc EXCEPT ![i] = "tsc_wr_scale"]
           ELSE /\ pc' = [pc EXCEPT ![i] = "done"]
                /\ UNCHANGED <<p, seq_start>>
    /\ UNCHANGED <<hv_vars, mem, env_vars, vm_state, op, ret, rval, tsc_seq,
                   tmp, destroy_vars, reader_vars, hist_vars, cpuid_vars,
                   cpu_mode, page_use, init_vtsc>>

\* p = gpa2hva(vm, ref_tsc_page->gpfn << PAGE_SHIFT); if (p != NULL) stac()
TscXlate(i) ==
    /\ pc[i] = "tsc_xlate"
    /\ LET hva == gpa2hva(Gpa(ref_tsc_page))
       IN  IF hva # NULL
           THEN /\ p' = [p EXCEPT ![i] = hva]
                /\ ac' = [ac EXCEPT ![i] = TRUE]
                /\ seq_start' = [seq_start EXCEPT ![i] = PageSeq(mem[hva])]
                /\ pc' = [pc EXCEPT ![i] = "tsc_wr_scale"]
           ELSE /\ pc' = [pc EXCEPT ![i] = "done"]
                /\ UNCHANGED <<p, ac, seq_start>>
    /\ UNCHANGED <<hv_vars, mem, env_vars, vm_state, op, ret, rval, tsc_seq,
                   tmp, destroy_vars, reader_vars, hist_vars,
                   cpuid_vars, cpu_mode, page_use, init_vtsc>>

\* p->tsc_scale = vcpu->vm->arch_vm.hyperv.tsc_scale
TscWrScale(i) ==
    /\ pc[i] = "tsc_wr_scale"
    /\ mem' = [mem EXCEPT ![p[i]] = WriteBytes(@, 8, tsc_scale)]
    /\ pc' = [pc EXCEPT ![i] = "tsc_wr_offset"]
    /\ UNCHANGED <<hv_vars, env_vars, vm_state, op, ret, rval, p, tsc_seq,
                   tmp, ac, destroy_vars, reader_vars, hist_vars,
                   cpuid_vars, aux_vars>>

\* TscWrOffset that stores tsc_scale to both fields
TscWrOffset_Scale(i) ==
    /\ pc[i] = "tsc_wr_offset"
    /\ mem' = [mem EXCEPT ![p[i]] = WriteBytes(@, 16, tsc_scale)]
    /\ pc' = [pc EXCEPT ![i] = "tsc_rd_seq"]
    /\ UNCHANGED <<hv_vars, env_vars, vm_state, op, ret, rval, p, tsc_seq,
                   tmp, ac, destroy_vars, reader_vars, hist_vars,
                   cpuid_vars, aux_vars>>

\* p->tsc_offset = vcpu->vm->arch_vm.hyperv.tsc_offset, then the write
\* barrier: the stores before it are visible before the stores after it
TscWrOffset(i) ==
    /\ pc[i] = "tsc_wr_offset"
    /\ mem' = [mem EXCEPT ![p[i]] = WriteBytes(@, 16, tsc_offset)]
    /\ pc' = [pc EXCEPT ![i] = "tsc_rd_seq"]
    /\ UNCHANGED <<hv_vars, env_vars, vm_state, op, ret, rval, p, tsc_seq,
                   tmp, ac, destroy_vars, reader_vars, hist_vars,
                   cpuid_vars, aux_vars>>

\* NextTscSeq without the test for 0xFFFFFFFF
NextTscSeq_SkipZeroOnly(s) ==
    LET n == Inc32(s) IN IF n = U32Zero THEN <<1, 0, 0, 0>> ELSE n

\* the sequence number that follows s
NextTscSeq(s) ==
    LET n == Inc32(s) IN IF n = SeqMax \/ n = U32Zero THEN <<1, 0, 0, 0>> ELSE n

\* tsc_seq = p->tsc_sequence + 1U, skipping the sentinels
TscRdSeq(i) ==
    /\ pc[i] = "tsc_rd_seq"
    /\ tsc_seq' = [tsc_seq EXCEPT ![i] = NextTscSeq(PageSeq(mem[p[i]]))]
    /\ pc' = [pc EXCEPT ![i] = "tsc_wr_seq"]
    /\ UNCHANGED <<hv_vars, mem, env_vars, vm_state, op, ret, rval, p, tmp,
                   ac, destroy_vars, reader_vars, hist_vars,
                   cpuid_vars, aux_vars>>

\* p->tsc_sequence = tsc_seq; clac()
TscWrSeq(i) ==
    /\ pc[i] = "tsc_wr_seq"
    /\ mem' = [mem EXCEPT ![p[i]] = WriteBytes(@, 0, tsc_seq[i])]
    /\ page_use' = [page_use EXCEPT ![p[i]] = [tsc |-> TRUE, stub |-> FALSE]]
    /\ ac' = [ac EXCEPT ![i] = FALSE]
    /\ pc' = [pc EXCEPT ![i] = "done"]
    /\ UNCHANGED <<hv_vars, env_vars, vm_state, op, ret, rval, p, tsc_seq,
                   tmp, destroy_vars, reader_vars, hist_vars,
                   cpuid_vars, cpu_mode, seq_start, init_vtsc>>

(***************************************************************************)
(* hyperv_rdmsr.                                                           *)
(***************************************************************************)
\* a vCPU enters hyperv_rdmsr(vcpu, msr, rval)
CallRdmsr(i, msr) ==
    /\ vm_state = "running"
    /\ pc[i] = "idle"
    /\ pc' = [pc EXCEPT ![i] = "rd"]
    /\ op' = [op EXCEPT ![i] = [kind |-> "rdmsr", msr |-> msr, wval |-> U64Zero]]
    /\ ret' = [ret EXCEPT ![i] = 0]
    /\ rval' = [rval EXCEPT ![i] = RvalPoison]
    /\ pre' = Snapshot
    /\ ncalls' = ncalls + 1
    /\ UNCHANGED <<hv_vars, mem, env_vars, vm_state, p, tsc_seq, tmp, ac,
                   destroy_vars, reader_vars, ref_written, nticks,
                   cpuid_vars, aux_vars>>

\* the MSRs hyperv_rdmsr knows
ReadableMsrs == Msrs \ {MSR_OTHER}

\* the value hyperv_rdmsr stores to *rval for a known MSR
RdmsrValue(i, msr) ==
    CASE msr = HV_X64_MSR_GUEST_OS_ID -> guest_os_id
      [] msr = HV_X64_MSR_HYPERCALL -> hypercall_page
      [] msr = HV_X64_MSR_VP_INDEX -> ToU64(i)
      [] msr = HV_X64_MSR_TIME_REF_COUNT -> hyperv_get_ReferenceTime
      [] msr = HV_X64_MSR_REFERENCE_TSC -> ref_tsc_page
      [] msr = HV_X64_MSR_TSC_FREQUENCY -> Mul64(ToU64(tsc_khz), ToU64(1000))
      [] msr = HV_X64_MSR_APIC_FREQUENCY -> Mul64(ToU64(tsc_khz), ToU64(1000))

\* Rdmsr that clears *rval in the default case
Rdmsr_ClearsRval(i) ==
    /\ pc[i] = "rd"
    /\ IF op[i].msr \in ReadableMsrs
       THEN /\ rval' = [rval EXCEPT ![i] = RdmsrValue(i, op[i].msr)]
            /\ UNCHANGED ret
       ELSE /\ ret' = [ret EXCEPT ![i] = -1]
            /\ rval' = [rval EXCEPT ![i] = U64Zero]
    /\ tmp' = [tmp EXCEPT ![i] =
                 IF op[i].msr = HV_X64_MSR_TIME_REF_COUNT THEN vtsc ELSE @]
    /\ pc' = [pc EXCEPT ![i] = "done"]
    /\ UNCHANGED <<hv_vars, mem, env_vars, vm_state, op, p, tsc_seq, ac,
                   destroy_vars, reader_vars, hist_vars, cpuid_vars, aux_vars>>

\* the switch of hyperv_rdmsr; tmp keeps the local tsc of hyperv_scale_tsc
Rdmsr(i) ==
    /\ pc[i] = "rd"
    /\ IF op[i].msr \in ReadableMsrs
       THEN /\ rval' = [rval EXCEPT ![i] = RdmsrValue(i, op[i].msr)]
            /\ UNCHANGED ret
       ELSE /\ ret' = [ret EXCEPT ![i] = -1]
            /\ UNCHANGED rval
    /\ tmp' = [tmp EXCEPT ![i] =
                 IF op[i].msr = HV_X64_MSR_TIME_REF_COUNT THEN vtsc ELSE @]
    /\ pc' = [pc EXCEPT ![i] = "done"]
    /\ UNCHANGED <<hv_vars, mem, env_vars, vm_state, op, p, tsc_seq, ac,
                   destroy_vars, reader_vars, hist_vars, cpuid_vars, aux_vars>>

\* return ret of hyperv_wrmsr and of hyperv_rdmsr
Return(i) ==
    /\ pc[i] = "done"
    /\ pc' = [pc EXCEPT ![i] = "idle"]
    /\ ref_written' =
          IF op[i].kind # "wrmsr" THEN ref_written
          ELSE IF op[i].msr = HV_X64_MSR_REFERENCE_TSC
               THEN [valid |-> TRUE, val |-> op[i].wval]
               ELSE NoRefWrite
    /\ op' = [op EXCEPT ![i] = NoOp]
    /\ ret' = [ret EXCEPT ![i] = 0]
    /\ rval' = [rval EXCEPT ![i] = RvalPoison]
    /\ p' = [p EXCEPT ![i] = NULL]
    /\ tsc_seq' = [tsc_seq EXCEPT ![i] = U32Zero]
    /\ tmp' = [tmp EXCEPT ![i] = U64Zero]
    /\ cpu_mode' = [cpu_mode EXCEPT ![i] = "none"]
    /\ seq_start' = [seq_start EXCEPT ![i] = U32Zero]
    /\ pre' = Snapshot
    /\ UNCHANGED <<hv_vars, mem, env_vars, vm_state, ac, destroy_vars,
                   reader_vars, ncalls, nticks, cpuid_vars, page_use, init_vtsc>>

(***************************************************************************)
(* hyperv_page_destory, run by the CPU that shuts the VM down.             *)
(***************************************************************************)
CallDestroy ==
    /\ vm_state = "running"
    /\ dpc = "idle"
    /\ dpc' = "d_hc_rd"
    /\ pre' = Snapshot
    /\ ncalls' = ncalls + 1
    /\ UNCHANGED <<hv_vars, mem, env_vars, vm_state, vcpu_vars, dtmp,
                   reader_vars, ref_written, nticks, cpuid_vars, aux_vars>>

\* hypercall_page.enabled = 0U: the load of the word that holds the field
DestroyHcRd ==
    /\ dpc = "d_hc_rd"
    /\ dtmp' = hypercall_page
    /\ dpc' = "d_hc_wr"
    /\ UNCHANGED <<hv_vars, mem, env_vars, vm_state, vcpu_vars, reader_vars,
                   hist_vars, cpuid_vars, aux_vars>>

\* hypercall_page.enabled = 0U: the store of the word with the bit cleared
DestroyHcWr ==
    /\ dpc = "d_hc_wr"
    /\ hypercall_page' = ClearEnabled(dtmp)
    /\ dpc' = "d_os_id"
    /\ UNCHANGED <<guest_os_id, ref_tsc_page, tsc_scale, tsc_offset, mem,
                   env_vars, vm_state, vcpu_vars, dtmp, reader_vars,
                   hist_vars, cpuid_vars, aux_vars>>

\* guest_os_id.val64 = 0UL
DestroyOsId ==
    /\ dpc = "d_os_id"
    /\ guest_os_id' = U64Zero
    /\ dpc' = "d_tsc_rd"
    /\ UNCHANGED <<hypercall_page, ref_tsc_page, tsc_scale, tsc_offset, mem,
                   env_vars, vm_state, vcpu_vars, dtmp, reader_vars,
                   hist_vars, cpuid_vars, aux_vars>>

\* ref_tsc_page.enabled = 0UL: the load of the word that holds the field
DestroyTscRd ==
    /\ dpc = "d_tsc_rd"
    /\ dtmp' = ref_tsc_page
    /\ dpc' = "d_tsc_wr"
    /\ UNCHANGED <<hv_vars, mem, env_vars, vm_state, vcpu_vars, reader_vars,
                   hist_vars, cpuid_vars, aux_vars>>

\* DestroyTscWr that stores the word back unchanged
DestroyTscWr_Keep ==
    /\ dpc = "d_tsc_wr"
    /\ ref_tsc_page' = dtmp
    /\ dpc' = "done"
    /\ UNCHANGED <<guest_os_id, hypercall_page, tsc_scale, tsc_offset, mem,
                   env_vars, vm_state, vcpu_vars, dtmp, reader_vars,
                   hist_vars, cpuid_vars, aux_vars>>

\* ref_tsc_page.enabled = 0UL: the store of the word with the bit cleared
DestroyTscWr ==
    /\ dpc = "d_tsc_wr"
    /\ ref_tsc_page' = ClearEnabled(dtmp)
    /\ dpc' = "done"
    /\ UNCHANGED <<guest_os_id, hypercall_page, tsc_scale, tsc_offset, mem,
                   env_vars, vm_state, vcpu_vars, dtmp, reader_vars,
                   hist_vars, cpuid_vars, aux_vars>>

\* the return of hyperv_page_destory
DestroyReturn ==
    /\ dpc = "done"
    /\ dpc' = "idle"
    /\ dtmp' = U64Zero
    /\ ref_written' = NoRefWrite
    /\ pre' = Snapshot
    /\ UNCHANGED <<hv_vars, mem, env_vars, vm_state, vcpu_vars, reader_vars,
                   ncalls, nticks, cpuid_vars, aux_vars>>

(***************************************************************************)
(* The guest reader of the reference-TSC page: it reads tsc_sequence, then *)
(* tsc_scale and tsc_offset, then tsc_sequence again, and accepts the pair *)
(* when both readings of the sequence are equal and no sentinel.           *)
(***************************************************************************)
ReadSeq1(g) ==
    /\ vm_state = "running"
    /\ rpc = "idle"
    /\ rpage' = g
    /\ r_seq1' = PageSeq(mem[g])
    /\ rpc' = "r_scale"
    /\ ncalls' = ncalls + 1
    /\ UNCHANGED <<hv_vars, mem, env_vars, vm_state, vcpu_vars, destroy_vars,
                   r_scale, r_offset, r_seq2, pre, ref_written, nticks,
                   cpuid_vars, aux_vars>>

ReadScale ==
    /\ rpc = "r_scale"
    /\ r_scale' = PageScale(mem[rpage])
    /\ rpc' = "r_offset"
    /\ UNCHANGED <<hv_vars, mem, env_vars, vm_state, vcpu_vars, destroy_vars,
                   rpage, r_seq1, r_offset, r_seq2, hist_vars,
                   cpuid_vars, aux_vars>>

ReadOffset ==
    /\ rpc = "r_offset"
    /\ r_offset' = PageOffset(mem[rpage])
    /\ rpc' = "r_seq2"
    /\ UNCHANGED <<hv_vars, mem, env_vars, vm_state, vcpu_vars, destroy_vars,
                   rpage, r_seq1, r_scale, r_seq2, hist_vars,
                   cpuid_vars, aux_vars>>

ReadSeq2 ==
    /\ rpc = "r_seq2"
    /\ r_seq2' = PageSeq(mem[rpage])
    /\ rpc' = "r_done"
    /\ UNCHANGED <<hv_vars, mem, env_vars, vm_state, vcpu_vars, destroy_vars,
                   rpage, r_seq1, r_scale, r_offset, hist_vars,
                   cpuid_vars, aux_vars>>

\* the reader trusts the pair it has read
Accepted == rpc = "r_done" /\ r_seq1 = r_seq2 /\ ~IsSentinel(r_seq1)

ReadEnd ==
    /\ rpc = "r_done"
    /\ rpc' = "idle"
    /\ r_seq1' = U32Zero
    /\ r_scale' = U64Zero
    /\ r_offset' = U64Zero
    /\ r_seq2' = U32Zero
    /\ UNCHANGED <<hv_vars, mem, env_vars, vm_state, vcpu_vars, destroy_vars,
                   rpage, hist_vars, cpuid_vars, aux_vars>>

(***************************************************************************)
(* The platform of the time model: the virtual TSC the handlers read is    *)
(* rdtsc() plus the TSC offset of the current VMCS, any 64-bit value.      *)
(***************************************************************************)
TscSamples ==
    { <<232, 3, 0, 0, 0, 0, 0, 0>>,
      <<0, 0, 0, 128, 7, 0, 0, 0>>,
      <<1, 0, 0, 128, 7, 0, 0, 0>>,
      <<0, 0, 0, 0, 0, 0, 0, 128>>,
      <<255, 255, 255, 255, 255, 255, 255, 255>> }

TscKhzSet == {1000, 10000, 10001, 2000000, 10000000}

VtscChange(c) ==
    /\ nticks < MaxTicks
    /\ c # vtsc
    /\ vtsc' = c
    /\ nticks' = nticks + 1
    /\ UNCHANGED <<hv_vars, mem, tsc_khz, vm_state, vcpu_vars, destroy_vars,
                   reader_vars, pre, ref_written, ncalls,
                   cpuid_vars, aux_vars>>

(***************************************************************************)
(* Specifications.                                                         *)
(***************************************************************************)
\* the MSRs hyperv_wrmsr accepts
WritableMsrs ==
    {HV_X64_MSR_GUEST_OS_ID, HV_X64_MSR_HYPERCALL, HV_X64_MSR_REFERENCE_TSC}

\* the writes of the model: every value to Hypercall and to ReferenceTsc,
\* zero and a nonzero value to GuestOsId, one value to each other address
WrInputs ==
    ({HV_X64_MSR_GUEST_OS_ID} \X {U64Zero, ValEn1})
    \cup ({HV_X64_MSR_HYPERCALL, HV_X64_MSR_REFERENCE_TSC} \X WVals)
    \cup ((Msrs \ WritableMsrs) \X {ValEn1})

\* the writes of the concurrent model
ConcInputs ==
    ({HV_X64_MSR_GUEST_OS_ID} \X {U64Zero, ValEn1})
    \cup ({HV_X64_MSR_HYPERCALL, HV_X64_MSR_REFERENCE_TSC}
             \X {ValEn1, ValDis1, ValOnes})
    \cup {<<HV_X64_MSR_VP_INDEX, ValEn1>>}

\* a step of a vCPU inside hyperv_wrmsr or hyperv_rdmsr
VcpuStep(i) ==
    \/ WrOsId(i)
    \/ WrOsClrRd(i)
    \/ WrOsClrWr(i)
    \/ WrHcGate(i)
    \/ WrHcStore(i)
    \/ HcMemset(i)
    \/ \E mode64 \in BOOLEAN : HcMemcpy(i, mode64)
    \/ WrReject(i)
    \/ TscStore(i)
    \/ TscEnabled(i)
    \/ TscXlate(i)
    \/ TscWrScale(i)
    \/ TscWrOffset(i)
    \/ TscRdSeq(i)
    \/ TscWrSeq(i)
    \/ Rdmsr(i)
    \/ Return(i)

DestroyStep ==
    \/ DestroyHcRd
    \/ DestroyHcWr
    \/ DestroyOsId
    \/ DestroyTscRd
    \/ DestroyTscWr
    \/ DestroyReturn

ReaderStep ==
    \/ ReadScale
    \/ ReadOffset
    \/ ReadSeq2
    \/ ReadEnd

\* Spec: the vCPUs of the VM write and read MSRs and another CPU resets the
\* VM, all concurrently: the steps of their handlers interleave
Next ==
    \/ hyperv_init_time
    \/ \E i \in Vcpus :
          \/ ncalls < MaxCalls /\ \E in \in ConcInputs : CallWrmsr(i, in[1], in[2])
          \/ ncalls < MaxCalls /\ \E msr \in {HV_X64_MSR_HYPERCALL, MSR_OTHER} :
                                     CallRdmsr(i, msr)
          \/ VcpuStep(i)
    \/ ncalls < MaxCalls /\ CallDestroy
    \/ DestroyStep

Spec == Init /\ [][Next]_vars

\* SpecSeq: the same handlers, one call at a time (a call starts only when
\* no other handler is executing), with every MSR and every value
NextSeqCall ==
    /\ Quiet
    /\ ncalls < MaxSeqCalls
    /\ \/ \E i \in Vcpus, in \in WrInputs : CallWrmsr(i, in[1], in[2])
       \/ \E i \in Vcpus, msr \in Msrs : CallRdmsr(i, msr)
       \/ CallDestroy

NextSeqModel ==
    \/ hyperv_init_time
    \/ NextSeqCall
    \/ \E i \in Vcpus : VcpuStep(i)
    \/ DestroyStep

SpecSeq == Init /\ [][NextSeqModel]_vars

\* SpecTsc: the vCPUs publish the reference-TSC page while the guest reads it
TscStep(i) ==
    \/ TscStore(i)
    \/ TscEnabled(i)
    \/ TscXlate(i)
    \/ TscWrScale(i)
    \/ TscWrOffset(i)
    \/ TscRdSeq(i)
    \/ TscWrSeq(i)
    \/ Return(i)

NextTsc ==
    \/ hyperv_init_time
    \/ \E i \in Vcpus :
          \/ ncalls < MaxTscCalls /\ \E wval \in {ValEn1, ValDis1, ValOnes} :
                                     CallWrmsr(i, HV_X64_MSR_REFERENCE_TSC, wval)
          \/ TscStep(i)
    \/ ncalls < MaxTscCalls /\ ReadSeq1(Gpa1)
    \/ ReaderStep

SpecTsc == Init /\ [][NextTsc]_vars

\* SpecTime: the reference time for the TSC frequencies and the virtual TSC
\* values of the platform
InitTime ==
    /\ InitCommon
    /\ mem = [g \in MappedGpas |-> ZeroPage]
    /\ tsc_khz \in TscKhzSet
    /\ vtsc \in TscSamples
    /\ entry = ZeroEntry
    /\ pre = Snapshot

NextTime ==
    \/ hyperv_init_time
    \/ \E c \in TscSamples : VtscChange(c)
    \/ \E i \in Vcpus :
          \/ ncalls < MaxTimeCalls /\ CallRdmsr(i, HV_X64_MSR_TIME_REF_COUNT)
          \/ Rdmsr(i)
          \/ Return(i)

SpecTime == InitTime /\ [][NextTime]_vars

\* SpecCpuid: hyperv_init_vcpuid_entry is called for the leaves, subleaves
\* and flags of the model, on entries with and without earlier contents, in
\* VMs before and after hyperv_init_time and before, while and after vCPU 0
\* writes GuestOsId
InitCpuid ==
    /\ InitCommon
    /\ mem = [g \in MappedGpas |-> ZeroPage]
    /\ tsc_khz \in DefaultTscKhz
    /\ vtsc = DefaultVtsc
    /\ entry \in InitEntries
    /\ pre = Snapshot

NextCpuid ==
    \/ hyperv_init_time
    \/ \E leaf \in CpuidLeaves, subleaf \in CpuidSubleaves, flags \in CpuidFlags :
          hyperv_init_vcpuid_entry(leaf, subleaf, flags)
    \/ ncalls < MaxCpuidCalls /\ CallWrmsr(0, HV_X64_MSR_GUEST_OS_ID, ValEn1)
    \/ WrOsId(0)
    \/ Return(0)

SpecCpuid == InitCpuid /\ [][NextCpuid]_vars

(***************************************************************************)
(* Properties.                                                             *)
(***************************************************************************)
\* vCPU i is at the return of hyperv_wrmsr(msr, ...) / hyperv_rdmsr(msr, ...)
WrDone(i, msr) == pc[i] = "done" /\ op[i].kind = "wrmsr" /\ op[i].msr = msr

RdDone(i, msr) == pc[i] = "done" /\ op[i].kind = "rdmsr" /\ op[i].msr = msr

\* the value v has the enabled bit set and names a page that translates
Publishes(v) == Enabled(v) = 1 /\ Gpa(v) \in MappedGpas

\* the value v has the enabled bit set and names a page that does not translate
FailsToTranslate(v) == Enabled(v) = 1 /\ Gpa(v) \notin MappedGpas

\* C1: torn-read freedom of the reference-TSC page.  Whenever the guest
\* reader accepts a (scale, offset) pair (both readings of tsc_sequence
\* equal and no sentinel), the pair is one whole pair: the pair the publish
\* writes (the VM's tsc_scale and tsc_offset) or the pair of a page image
\* from before the publish, never the scale of one and the offset of the
\* other.
C1_TornReadFreedom ==
    Accepted =>
        \/ <<r_scale, r_offset>> = <<tsc_scale, tsc_offset>>
        \/ \E pg \in InitPages :
              <<r_scale, r_offset>> = <<PageScale(pg), PageOffset(pg)>>

\* the two 16-bit halves of a sequence number
SeqLo(s) == s[1] + 256 * s[2]

SeqHi(s) == s[3] + 256 * s[4]

\* w is the sequence number the publish has to write over s: s + 1 mod 2^32,
\* and 1 when that is 0 (s = 0xFFFFFFFF) or 0xFFFFFFFF (s = 0xFFFFFFFE)
SeqFollows(s, w) ==
    IF SeqHi(s) = 65535 /\ SeqLo(s) >= 65534
    THEN SeqHi(w) = 0 /\ SeqLo(w) = 1
    ELSE IF SeqLo(s) = 65535
         THEN SeqHi(w) = SeqHi(s) + 1 /\ SeqLo(w) = 0
         ELSE SeqHi(w) = SeqHi(s) /\ SeqLo(w) = SeqLo(s) + 1

\* C2: sequence-number publish.  When a ReferenceTsc write that publishes
\* returns, the page's tsc_sequence is the value it held before the call
\* plus 1 modulo 2^32, or 1 when that sum is 0 or 0xFFFFFFFF; it is never 0
\* and never 0xFFFFFFFF.
C2_SeqPublish ==
    \A i \in Vcpus :
        WrDone(i, HV_X64_MSR_REFERENCE_TSC) /\ Publishes(op[i].wval) =>
            LET g == Gpa(op[i].wval)
            IN  /\ SeqFollows(PageSeq(pre.mem[g]), PageSeq(mem[g]))
                /\ ~IsSentinel(PageSeq(mem[g]))

\* a publish over the sequence number 0xFFFFFFFE has returned
C2_Witness ==
    \E i \in Vcpus :
        /\ WrDone(i, HV_X64_MSR_REFERENCE_TSC)
        /\ Publishes(op[i].wval)
        /\ PageSeq(pre.mem[Gpa(op[i].wval)]) = <<254, 255, 255, 255>>

\* C3: the GuestOsId gate as an invariant.  Whenever no handler is
\* executing, hypercall_page.enabled = 1 implies guest_os_id # 0.
C3_GuestOsIdGate ==
    Quiet => (Enabled(hypercall_page) = 1 => guest_os_id # U64Zero)

\* C4: when a write of 0 to GuestOsId returns, hypercall_page.enabled is 0;
\* when a write to Hypercall that started with guest_os_id = 0 returns, it
\* returns 0 and hypercall_page and every guest page are as before the call.
C4_GuestOsIdZero ==
    \A i \in Vcpus :
        /\ WrDone(i, HV_X64_MSR_GUEST_OS_ID) /\ op[i].wval = U64Zero =>
              Enabled(hypercall_page) = 0
        /\ WrDone(i, HV_X64_MSR_HYPERCALL) /\ pre.guest_os_id = U64Zero =>
              /\ ret[i] = 0
              /\ hypercall_page = pre.hypercall_page
              /\ mem = pre.mem

\* a Hypercall write of an enabled, translatable value has returned; it
\* started with guest_os_id = 0 and with a hypercall_page whose enabled bit
\* an earlier write of 0 to GuestOsId or a reset had cleared
C4_Witness ==
    \E i \in Vcpus :
        /\ WrDone(i, HV_X64_MSR_HYPERCALL)
        /\ Publishes(op[i].wval)
        /\ pre.guest_os_id = U64Zero
        /\ pre.hypercall_page = ClearEnabled(ValEn1)

\* C5: Unsupported-Register failure.  hyperv_rdmsr returns -1 for an address
\* that is none of the seven synthetic MSRs and 0 for each of the seven;
\* hyperv_wrmsr returns 0 for GuestOsId, Hypercall and ReferenceTsc and -1
\* for every other address.
C5_UnsupportedRegister ==
    \A i \in Vcpus :
        /\ pc[i] = "done" /\ op[i].kind = "rdmsr" =>
              ret[i] = IF op[i].msr \in
                            { HV_X64_MSR_GUEST_OS_ID, HV_X64_MSR_HYPERCALL,
                              HV_X64_MSR_VP_INDEX, HV_X64_MSR_TIME_REF_COUNT,
                              HV_X64_MSR_REFERENCE_TSC,
                              HV_X64_MSR_TSC_FREQUENCY,
                              HV_X64_MSR_APIC_FREQUENCY }
                       THEN 0 ELSE -1
        /\ pc[i] = "done" /\ op[i].kind = "wrmsr" =>
              ret[i] = IF op[i].msr \in
                            { HV_X64_MSR_GUEST_OS_ID, HV_X64_MSR_HYPERCALL,
                              HV_X64_MSR_REFERENCE_TSC }
                       THEN 0 ELSE -1

\* a write to the read-only TimeRefCount has returned -1
C5_Witness ==
    \E i \in Vcpus : WrDone(i, HV_X64_MSR_TIME_REF_COUNT) /\ ret[i] = -1

\* C6: when hyperv_page_destory returns, hypercall_page.enabled = 0,
\* guest_os_id = 0 and ref_tsc_page.enabled = 0, and tsc_scale and
\* tsc_offset are as before the call.
C6_Reset ==
    dpc = "done" =>
        /\ Enabled(hypercall_page) = 0
        /\ guest_os_id = U64Zero
        /\ Enabled(ref_tsc_page) = 0
        /\ tsc_scale = pre.tsc_scale
        /\ tsc_offset = pre.tsc_offset

\* a reset of a VM with all three set, and a nonzero scale, has returned
C6_Witness ==
    /\ dpc = "done"
    /\ Enabled(pre.hypercall_page) = 1
    /\ pre.guest_os_id # U64Zero
    /\ Enabled(pre.ref_tsc_page) = 1
    /\ pre.tsc_scale # U64Zero

\* C7: ReferenceTsc read-back.  A read of ReferenceTsc whose latest
\* preceding write or reset is a write of ReferenceTsc with value v returns
\* 0 and v.
C7_RefTscReadBack ==
    \A i \in Vcpus :
        RdDone(i, HV_X64_MSR_REFERENCE_TSC) /\ ref_written.valid =>
            ret[i] = 0 /\ rval[i] = ref_written.val

\* a read-back of a value with reserved bits set and the enabled bit clear
C7_Witness ==
    \E i \in Vcpus :
        /\ RdDone(i, HV_X64_MSR_REFERENCE_TSC)
        /\ ref_written.valid
        /\ ref_written.val = ValDis1

\* vCPU i is at the return of a Hypercall write (past the GuestOsId gate) or
\* a ReferenceTsc write of an enabled value that does not translate
FailedSetup(i) ==
    /\ FailsToTranslate(op[i].wval)
    /\ \/ WrDone(i, HV_X64_MSR_HYPERCALL) /\ pre.guest_os_id # U64Zero
       \/ WrDone(i, HV_X64_MSR_REFERENCE_TSC)

\* C8: translation failure is a silent no-op.  Such a write returns 0, the
\* raw value is stored in the VM's state and every guest page is as before
\* the call; and guest memory changes only in a step of a handler whose
\* translation succeeded (nothing is retried outside a call).
C8_TranslationFailure ==
    [][ /\ \A i \in Vcpus :
              FailedSetup(i)' =>
                  /\ ret'[i] = 0
                  /\ mem' = pre'.mem
                  /\ IF op'[i].msr = HV_X64_MSR_HYPERCALL
                     THEN hypercall_page' = op'[i].wval
                     ELSE ref_tsc_page' = op'[i].wval
        /\ mem' # mem => \E i \in Vcpus : pc[i] # "idle" /\ p[i] # NULL
      ]_vars

\* a Hypercall write of a value that does not translate has returned
C8_Witness ==
    \E i \in Vcpus : FailedSetup(i) /\ op[i].msr = HV_X64_MSR_HYPERCALL

\* C9 as stated: monotonic reference time.  For the VM's (tsc_scale,
\* tsc_offset) pair and any two TimeRefCount reads that sampled the virtual
\* TSC values c1 <= c2, the value read at c1 is at most the value read at c2.
C9_Monotonic ==
    \A i, j \in Vcpus :
        /\ RdDone(i, HV_X64_MSR_TIME_REF_COUNT)
        /\ RdDone(j, HV_X64_MSR_TIME_REF_COUNT)
        /\ Leq(tmp[i], tmp[j])
        => Leq(rval[i], rval[j])

\* C9 as amended: the same for c1 <= c2 when the scaled value of c1 is not
\* below tsc_offset (c1 is not before the virtual TSC value that
\* hyperv_init_time sampled), so that the subtraction does not wrap.
C9_MonotonicFromOrigin ==
    \A i, j \in Vcpus :
        /\ RdDone(i, HV_X64_MSR_TIME_REF_COUNT)
        /\ RdDone(j, HV_X64_MSR_TIME_REF_COUNT)
        /\ Leq(tmp[i], tmp[j])
        /\ Leq(tsc_offset, u64_mul_u64_shr64(tmp[i], tsc_scale))
        => Leq(rval[i], rval[j])

\* two reads at different virtual TSC values, both at or after the origin,
\* have returned different reference times
C9_Witness ==
    \E i, j \in Vcpus :
        /\ RdDone(i, HV_X64_MSR_TIME_REF_COUNT)
        /\ RdDone(j, HV_X64_MSR_TIME_REF_COUNT)
        /\ Less(tmp[i], tmp[j])
        /\ Leq(tsc_offset, u64_mul_u64_shr64(tmp[i], tsc_scale))
        /\ tsc_offset # U64Zero
        /\ Less(rval[i], rval[j])

\* q = floor(10000 * 2^64 / khz): q * khz is 10000 * 2^64 less a rest
\* smaller than khz
IsShl64Quotient(q, khz) ==
    LET hi == u64_mul_u64_shr64(q, ToU64(khz))
        lo == Mul64(q, ToU64(khz))
    IN  \/ hi = ToU64(10000) /\ lo = U64Zero
        \/ /\ hi = ToU64(9999)
           /\ lo # U64Zero
           /\ Less(Sub64(U64Zero, lo), ToU64(khz))

\* C10 as stated: no division overflow in hyperv_init_time.  For every TSC
\* frequency from 1 MHz to 10 GHz (tsc_khz from 1000 to 10000000) the
\* division of hyperv_init_time does not overflow (raises no divide error).
C10_NoDivOverflow ==
    vm_state # "created" /\ tsc_khz \in 1000..10000000 =>
        vm_state # "fault"

\* C10 as amended: for every tsc_khz from 10001 to 10000000 the division
\* does not overflow, and tsc_scale is floor(10000 * 2^64 / tsc_khz).
C10_NoDivOverflowAbove10MHz ==
    vm_state # "created" /\ tsc_khz \in 10001..10000000 =>
        vm_state = "running" /\ IsShl64Quotient(tsc_scale, tsc_khz)

\* hyperv_init_time has run at the smallest frequency above 10 MHz
C10_Witness == vm_state = "running" /\ tsc_khz = 10001

\* (a - b) mod 2^128 of two 16-byte values
Sub128(a, b) ==
    [k \in 1..16 |-> (a[k] - b[k] - Borrow(a, b, k) + 256) % 256]

\* the 16-byte value v is below the natural number n (n at most 2^30)
Below(v, n) ==
    /\ \A k \in 5..16 : v[k] = 0
    /\ v[4] < 64
    /\ v[1] + 256 * v[2] + 65536 * v[3] + 16777216 * v[4] < n

\* m is floor(c * 10000 / khz) or one less: 0 <= c * 10000 - m * khz < 2 * khz
WithinOne(m, c, khz) ==
    LET exact == MulDigits(c, ToU64(10000))
        got == MulDigits(m, ToU64(khz))
    IN  Leq(got, exact) /\ Below(Sub128(exact, got), 2 * khz)

\* C11: scale accuracy.  With tsc_scale = shl64_div(10000, tsc_khz) of a
\* division that did not overflow, the value hyperv_init_time computed as
\* mul_shr64(c, tsc_scale) for the cycle count c it sampled differs from
\* floor(c * 10000 / tsc_khz) by at most 1 (it is that value or one less).
\* It is looked at once hyperv_init_time has run and before the first read
\* starts; no read changes any of the three values.
C11_ScaleAccuracy ==
    vm_state = "running" /\ ncalls = 0 =>
        WithinOne(tsc_offset, init_vtsc, tsc_khz)

\* hyperv_init_time has scaled 1000 cycles at 2 GHz to 4, one less than the
\* exact 5 units of 100ns
C11_Witness ==
    /\ vm_state = "running"
    /\ ncalls = 0
    /\ tsc_khz = 2000000
    /\ init_vtsc = ToU64(1000)
    /\ tsc_offset = ToU64(4)

\* the page at g holds the VM's tsc_scale and tsc_offset under a sequence
\* number that is no sentinel
PagePublished(g) ==
    /\ PageScale(mem[g]) = tsc_scale
    /\ PageOffset(mem[g]) = tsc_offset
    /\ ~IsSentinel(PageSeq(mem[g]))

\* C12 as stated: published contents match the VM state.  When a
\* ReferenceTsc write that publishes returns, the page holds the VM's
\* tsc_scale and tsc_offset under a non-sentinel sequence number, and every
\* page a publish has completed on still holds them after any later MSR
\* writes and reset.
C12_PublishedMatches ==
    /\ \A i \in Vcpus :
          WrDone(i, HV_X64_MSR_REFERENCE_TSC) /\ Publishes(op[i].wval) =>
              PagePublished(Gpa(op[i].wval))
    /\ \A g \in MappedGpas : page_use[g].tsc => PagePublished(g)

\* C12 as amended: the same, for every page a publish has completed on and
\* no Hypercall write has set up its stub on since.
C12_PublishedMatchesUntilStub ==
    /\ \A i \in Vcpus :
          WrDone(i, HV_X64_MSR_REFERENCE_TSC) /\ Publishes(op[i].wval) =>
              PagePublished(Gpa(op[i].wval))
    /\ \A g \in MappedGpas :
          page_use[g].tsc /\ ~page_use[g].stub => PagePublished(g)

\* a reset returns after a publish to page 1 and a later ReferenceTsc write
\* that disabled the page
C12_Witness ==
    /\ dpc = "done"
    /\ page_use[Gpa1].tsc
    /\ ~page_use[Gpa1].stub
    /\ ref_tsc_page = ValDis1

\* the leaf is one of 0x40000001..0x40000006
InHypervRange(leaf) ==
    leaf[4] = 64 /\ leaf[3] = 0 /\ leaf[2] = 0 /\ leaf[1] \in 1..6

\* C13 as stated: CPUID out-of-range leaves.  After a call of
\* hyperv_init_vcpuid_entry for a leaf outside 0x40000001..0x40000006, with
\* any subleaf and flags, every field of the entry has the value it had
\* before the call.
C13_OutOfRangeUntouched ==
    cpuid_call.valid /\ ~InHypervRange(cpuid_call.leaf) =>
        entry = cpuid_call.old

\* C13 as amended: after such a call eax, ebx, ecx and edx of the entry have
\* the values they had before the call, and leaf, subleaf and flags of the
\* entry hold the arguments of the call.
C13_OutOfRangeKeepsRegs ==
    cpuid_call.valid /\ ~InHypervRange(cpuid_call.leaf) =>
        /\ entry.eax = cpuid_call.old.eax
        /\ entry.ebx = cpuid_call.old.ebx
        /\ entry.ecx = cpuid_call.old.ecx
        /\ entry.edx = cpuid_call.old.edx
        /\ entry.leaf = cpuid_call.leaf
        /\ entry.subleaf = cpuid_call.subleaf
        /\ entry.flags = cpuid_call.flags

\* a call for leaf 0x40000007 on an entry that held other arguments and
\* nonzero registers
C13_Witness ==
    /\ cpuid_call.valid
    /\ cpuid_call.leaf = <<7, 0, 0, 64>>
    /\ cpuid_call.old.leaf # cpuid_call.leaf
    /\ cpuid_call.old.eax = <<17, 17, 17, 17>>
    /\ cpuid_call.old.edx = <<68, 68, 68, 68>>

\* C14: CPUID signature.  After a call for leaf 0x40000001, with any subleaf
\* and flags, eax is 0x31237648 and ebx, ecx and edx are 0, whatever the
\* entry held before and whatever the state of the VM.
C14_Signature ==
    cpuid_call.valid /\ cpuid_call.leaf = <<1, 0, 0, 64>> =>
        /\ entry.eax = <<72, 118, 35, 49>>
        /\ entry.ebx = U32Zero
        /\ entry.ecx = U32Zero
        /\ entry.edx = U32Zero

\* a call for leaf 0x40000001 with a nonzero subleaf and flags, on an entry
\* with nonzero registers, in a VM whose guest_os_id is set
C14_Witness ==
    /\ cpuid_call.valid
    /\ cpuid_call.leaf = <<1, 0, 0, 64>>
    /\ cpuid_call.subleaf # U32Zero
    /\ cpuid_call.flags # U32Zero
    /\ cpuid_call.old.ebx = <<34, 34, 34, 34>>
    /\ guest_os_id # U64Zero
    /\ vm_state = "running"

Stub64Page ==
    [b |-> <<72, 199, 192, 2, 0, 0, 0, 195, 0, 0, 0, 0, 0, 0, 0, 0, 0, 0, 0,
             0, 0, 0, 0, 0>>,
     rest |-> 0]

\* the page that is zero except for the 11-byte stub
\* b8 02 00 00 00 ba 00 00 00 00 c3
Stub32Page ==
    [b |-> <<184, 2, 0, 0, 0, 186, 0, 0, 0, 0, 195, 0, 0, 0, 0, 0, 0, 0, 0,
             0, 0, 0, 0, 0>>,
     rest |-> 0]

\* C16: hypercall stub page contents.  When a Hypercall write that started
\* with guest_os_id # 0, of a value with the enabled bit set whose gpfn
\* translates, returns, the whole page at gpfn is zero except for its
\* leading bytes: the 8-byte stub when the writing vCPU is in 64-bit mode,
\* the 11-byte stub otherwise.  Nothing of the page's earlier content is left.
C16_StubPage ==
    \A i \in Vcpus :
        /\ WrDone(i, HV_X64_MSR_HYPERCALL)
        /\ pre.guest_os_id # U64Zero
        /\ Publishes(op[i].wval)
        => mem[Gpa(op[i].wval)] =
              IF cpu_mode[i] = "CPU_MODE_64BIT" THEN Stub64Page ELSE Stub32Page

\* a vCPU that is not in 64-bit mode has set up the stub on page 2, which
\* held stale reference-TSC data and nonzero bytes beyond it
C16_Witness ==
    \E i \in Vcpus :
        /\ WrDone(i, HV_X64_MSR_HYPERCALL)
        /\ pre.guest_os_id # U64Zero
        /\ op[i].wval = ValEn2
        /\ pre.mem[Gpa2] = StalePage
        /\ cpu_mode[i] = "other"

\* C17: disabled writes touch no page.  When a ReferenceTsc write or a
\* Hypercall write of a value with the enabled bit clear returns, every guest
\* page is as before the call (the page the value names and every page
\* published before), and of the VM's state only the stored MSR value has
\* changed: ref_tsc_page holds the value; hypercall_page holds it when
\* guest_os_id was nonzero and is unchanged otherwise.
C17_DisabledWrite ==
    \A i \in Vcpus :
        /\ WrDone(i, HV_X64_MSR_REFERENCE_TSC) /\ Enabled(op[i].wval) = 0 =>
              /\ mem = pre.mem
              /\ ref_tsc_page = op[i].wval
              /\ <<guest_os_id, hypercall_page, tsc_scale, tsc_offset>> =
                    <<pre.guest_os_id, pre.hypercall_page, pre.tsc_scale,
                      pre.tsc_offset>>
        /\ WrDone(i, HV_X64_MSR_HYPERCALL) /\ Enabled(op[i].wval) = 0 =>
              /\ mem = pre.mem
              /\ hypercall_page = IF pre.guest_os_id = U64Zero
                                  THEN pre.hypercall_page ELSE op[i].wval
              /\ <<guest_os_id, ref_tsc_page, tsc_scale, tsc_offset>> =
                    <<pre.guest_os_id, pre.ref_tsc_page, pre.tsc_scale,
                      pre.tsc_offset>>

\* a ReferenceTsc write that disables page 1 has returned; page 1 was
\* published before and still holds the published contents
C17_Witness ==
    \E i \in Vcpus :
        /\ WrDone(i, HV_X64_MSR_REFERENCE_TSC)
        /\ op[i].wval = ValDis1
        /\ Enabled(pre.ref_tsc_page) = 1
        /\ page_use[Gpa1].tsc
        /\ PagePublished(Gpa1)

\* vCPU i is between a successful translation and the end of the page write
InWindow(i) ==
    pc[i] \in {"hc_memset", "hc_memcpy", "tsc_wr_scale", "tsc_wr_offset",
               "tsc_rd_seq", "tsc_wr_seq"}

\* C18: guest-memory access window.  On each vCPU the supervisor-access
\* override is enabled exactly between a successful translation (p names a
\* backed page) and the end of the page write; it is disabled whenever
\* hyperv_wrmsr or hyperv_rdmsr returns and outside the handlers; and every
\* step that changes a guest page is a step of a vCPU that has it enabled.
C18_AccessWindow ==
    /\ [](\A i \in Vcpus :
            /\ ac[i] <=> InWindow(i)
            /\ ac[i] => p[i] \in MappedGpas
            /\ pc[i] \in {"done", "idle"} => ~ac[i])
    /\ [][mem' # mem => \E i \in Vcpus : ac[i] /\ pc'[i] # pc[i]]_vars

\* a Hypercall write that set up the stub has returned with the override
\* disabled again
C18_Witness ==
    \E i \in Vcpus :
        /\ WrDone(i, HV_X64_MSR_HYPERCALL)
        /\ Publishes(op[i].wval)
        /\ mem # pre.mem
        /\ ~ac[i]

\* C19: state unchanged on rejected access.  When hyperv_wrmsr or
\* hyperv_rdmsr returns -1, guest_os_id, hypercall_page, ref_tsc_page,
\* tsc_scale, tsc_offset and every guest page are as before the call, and a
\* hyperv_rdmsr that returns -1 has left *rval as the caller had it; when
\* hyperv_rdmsr returns 0 the same state is as before the call too.
C19_RejectedAccess ==
    \A i \in Vcpus :
        pc[i] = "done" =>
            /\ ret[i] = -1 => Snapshot = pre
            /\ op[i].kind = "rdmsr" /\ ret[i] = -1 => rval[i] = RvalPoison
            /\ op[i].kind = "rdmsr" => Snapshot = pre

\* a read of an unknown MSR has returned -1 in a VM with GuestOsId set and
\* the reference-TSC page enabled
C19_Witness ==
    \E i \in Vcpus :
        /\ RdDone(i, MSR_OTHER)
        /\ ret[i] = -1
        /\ guest_os_id # U64Zero
        /\ Enabled(ref_tsc_page) = 1

\* C20: every publish is visible in the sequence number.  In every step
\* that completes a publish (the store of tsc_sequence), the page's
\* tsc_sequence after the step differs from the value the page held when
\* that publish opened the page, whatever other vCPUs publish meanwhile.
C20_PublishVisible ==
    [][\A i \in Vcpus :
          pc[i] = "tsc_wr_seq" /\ pc'[i] = "done" =>
              PageSeq(mem'[p[i]]) # seq_start[i]]_vars

====
